---- MODULE Spec2Model ----
(***************************************************************************)
(* Backend sidecar management of the FreeTodo desktop shell                *)
(* (free-todo-frontend/src-tauri/src): the shared BackendState, the        *)
(* start_backend / stop_backend entry points, the backend_supervisor loop  *)
(* with start_backend_process, and the reverse proxy's request handler.    *)
(*                                                                         *)
(* Every atomic load, atomic store and mutex-protected section of the code *)
(* is one step.  The environment (what answers on a port, whether a spawn  *)
(* succeeds, when a child dies) is chosen anew at every step that asks it. *)
(***************************************************************************)
EXTENDS Integers, Sequences, FiniteSets, TLC

\* ---------------------------------------------------------------- bounds
\* ports of the mode's backend range, numbered 1..MaxPort
MaxPort == 2
\* a run with one call of start_backend, as lib.rs makes it: the children
\* Command::spawn may create, and the consecutive launch failures of the
\* supervisor
MaxSpawns == 2
MaxFails == 2
\* a run with repeated calls of start_backend (each spawns one more supervisor
\* task): the calls, the children, and the consecutive launch failures of each
\* supervisor
MaxStarts == 2
ApiSpawns == 1
ApiFails == 1
\* a run that follows the backoff to its cap: the consecutive launch failures
\* of the supervisor (500 ms doubles to 10 s with the fifth)
MaxBackoffFails == 6
\* the rewriting of a proxied request: entries of a header list, and the
\* length of the longest body (two decimal digits)
MaxHeaders == 2
LongBody == 12

\* ------------------------------------------------------ program constants
\* config::ports::DEV_BACKEND_PORT, the stable proxy port of ServerMode::Dev
ProxyPort == 8001
\* Duration::from_millis(500), the backoff floor
BackoffFloor == 500
\* Duration::from_secs(10), max_backoff
MaxBackoff == 10000
\* config::health_check::BACKEND_INTERVAL
Interval == 30000
\* pick_backend_port: for _ in 0..10
Draws == 10

Sup == 1..MaxStarts
Ports == 1..MaxPort
Paths == {"/ready", "/tasks"}

VARIABLES
    backend_port,   \* BackendState.backend_port (AtomicU16), 0 = unset
    ready,          \* BackendState.ready (AtomicBool)
    proxy_port,     \* BackendState.proxy_port
    stopping,       \* BackendState.stopping
    proxy_started,  \* BackendState.proxy_started
    process,        \* BackendState.process: 0 = None, else the child's index
    child,          \* the children spawned so far: port, alive, signal sent
    listeners,      \* proxy listeners bound on the stable port
    sup,            \* the supervisor tasks: position and locals
    api,            \* the caller of start_backend / stop_backend
    px,             \* the proxy handler serving the current request
    hist            \* the bounds of the run, and what the properties observe

vars == <<backend_port, ready, proxy_port, stopping, proxy_started, process,
          child, listeners, sup, api, px, hist>>

shared == <<backend_port, ready, proxy_port, stopping, proxy_started>>

Min(a, b) == IF a < b THEN a ELSE b

\* ------------------------------------------------------------ environment
\* What a GET /health on a port can come back with.
HealthReports ==
    { [kind |-> "refused"],                                  \* transport error
      [kind |-> "status", ok |-> FALSE],                     \* non-success code
      [kind |-> "garbage"],                                  \* 2xx, body not JSON
      [kind |-> "json", app |-> "none",      mode |-> "none"],
      [kind |-> "json", app |-> "other",     mode |-> "none"],
      [kind |-> "json", app |-> "lifetrace", mode |-> "none"],
      [kind |-> "json", app |-> "lifetrace", mode |-> "dev"],
      [kind |-> "json", app |-> "lifetrace", mode |-> "build"] }

\* response.status().is_success()
StatusSuccess(r) == r.kind \in {"garbage", "json"}

\* Faulty variant of the identity probe: a report without an app field passes.
IsLifetraceBackend_AppOptional(r) ==
    /\ r.kind = "json"
    /\ r.app \in {"lifetrace", "none"}

\* fn is_lifetrace_backend: the request succeeds, the status is a success, the
\* body parses as HealthResponse and app is Some("lifetrace")
IsLifetraceBackend(r) ==
    /\ r.kind = "json"
    /\ r.app = "lifetrace"

CheckBackendHealth(r) == StatusSuccess(r)

\* mode_label(ServerMode::Dev), the expected_mode of verify_backend_mode
ModeLabel == "dev"

\* Faulty variant of the verification: a report whose server_mode is not the
\* expected one is rejected.
VerifyBackendMode_Strict(r) ==
    IF r.kind = "json" THEN r.app = "lifetrace" /\ r.mode = ModeLabel ELSE TRUE

\* Ok(()) = TRUE, Err = FALSE.  A server_mode other than the expected one is
\* logged and changes nothing.
VerifyBackendMode(r) ==
    IF r.kind = "json" THEN r.app = "lifetrace" ELSE TRUE

\* Faulty variant of the scan: the first port that answers /health with a
\* success status is taken, whatever it identifies as.
RECURSIVE DetectFrom_FirstHealthy(_, _)
DetectFrom_FirstHealthy(occ, p) ==
    IF p > MaxPort THEN 0
    ELSE IF CheckBackendHealth(occ[p]) THEN p
    ELSE DetectFrom_FirstHealthy(occ, p + 1)

\* occ: Ports -> HealthReports, what each port of the range answers.
\* The lowest port that identifies, or 0 for None.
RECURSIVE DetectFrom(_, _)
DetectFrom(occ, p) ==
    IF p > MaxPort THEN 0
    ELSE IF IsLifetraceBackend(occ[p]) THEN p
    ELSE DetectFrom(occ, p + 1)

DetectRunningBackendPort(occ) == DetectFrom(occ, 1)

\* The reports detection distinguishes: one that identifies, one that does not.
DetectReports ==
    { [kind |-> "refused"],
      [kind |-> "json", app |-> "other",     mode |-> "none"],
      [kind |-> "json", app |-> "lifetrace", mode |-> "dev"] }

\* free: the set of ports of the range a TCP bind succeeds on.  The random
\* draws return any of them, the linear scan the lowest; 0 stands for Err.
PickBackendPort(free) == IF free = {} THEN {0} ELSE free

\* for _ in 0..10 { let port = rng.gen_range(..); if port_available(port) {
\*     return Ok(port); } }: the first of the draws that is free, else 0
RECURSIVE FirstFreeDraw(_, _, _)
FirstFreeDraw(free, draws, i) ==
    IF i > Len(draws) THEN 0
    ELSE IF draws[i] \in free THEN draws[i]
    ELSE FirstFreeDraw(free, draws, i + 1)

\* for port in start_port..=end_port { if port_available(port) {
\*     return Ok(port); } }: the lowest free port, else 0
RECURSIVE FirstFreeFrom(_, _)
FirstFreeFrom(free, p) ==
    IF p > MaxPort THEN 0
    ELSE IF p \in free THEN p
    ELSE FirstFreeFrom(free, p + 1)

\* Faulty variant of the allocation: no linear scan after the random draws.
PickWithDraws_NoScan(free, draws) == FirstFreeDraw(free, draws, 1)

\* fn pick_backend_port with the draws of its rng given; 0 stands for Err
PickWithDraws(free, draws) ==
    IF FirstFreeDraw(free, draws, 1) # 0
    THEN FirstFreeDraw(free, draws, 1)
    ELSE FirstFreeFrom(free, 1)

\* ------------------------------------------------------------------ state
SupInit ==
    [pc |-> "none", backoff |-> BackoffFloor, managed |-> FALSE,
     exited |-> FALSE, bp |-> 0, det |-> 0, port |-> 0,
     cid |-> 0, ident |-> "none"]

HistInit ==
    [nfail  |-> [s \in Sup |-> 0],     \* consecutive failed launches
     waited |-> [s \in Sup |-> 0],     \* ms slept after the last failure
     starts |-> 0,                     \* calls of start_backend so far
     stale  |-> 0,      \* port of the child last found exited, until a port
                        \* is published again
     probed |-> 0,      \* port of the last successful health probe, 0 after
                        \* a failed probe or an observed exit
     scen   |-> "start",\* how far the run follows "two failed launches,
                        \* then a successful one, and nothing else"
     told   |-> {},     \* supervisors running when stop_backend set stopping
     fn     |-> [op |-> "none"],    \* a helper function under study: its
                                    \* input and, once applied, its result
     lim    |-> [starts |-> MaxStarts, spawns |-> ApiSpawns,
                 fails |-> ApiFails]]

Init ==
    /\ backend_port = 0
    /\ ready = FALSE
    /\ proxy_port = 0
    /\ stopping = FALSE
    /\ proxy_started = FALSE
    /\ process = 0
    /\ child = << >>
    /\ listeners = 0
    /\ sup = [s \in Sup |-> SupInit]
    /\ api = [pc |-> "idle", held |-> 0, ret |-> "none"]
    /\ px = [pc |-> "idle", path |-> "/ready", port |-> 0, ready |-> FALSE,
             code |-> 0, body |-> [status |-> "none"], fwd |-> 0,
             at |-> FALSE]
    /\ hist = HistInit

\* the run lib.rs makes: setup calls start_backend once
InitOnce ==
    /\ Init!1 /\ Init!2 /\ Init!3 /\ Init!4 /\ Init!5 /\ Init!6
    /\ Init!7 /\ Init!8 /\ Init!9 /\ Init!10 /\ Init!11
    /\ hist = [HistInit EXCEPT !.lim = [starts |-> 1, spawns |-> MaxSpawns,
                                        fails |-> MaxFails]]

\* one call of start_backend, and launches that may fail often in a row
InitBackoff ==
    /\ Init!1 /\ Init!2 /\ Init!3 /\ Init!4 /\ Init!5 /\ Init!6
    /\ Init!7 /\ Init!8 /\ Init!9 /\ Init!10 /\ Init!11
    /\ hist = [HistInit EXCEPT !.lim = [starts |-> 1, spawns |-> MaxSpawns,
                                        fails |-> MaxBackoffFails]]

\* ------------------------------------------- the proxy's request rewriting
\* header names a request or a response may carry (http lower-cases them)
ReqHeaderNames == {"host", "content-length", "connection", "accept", "x-trace"}
RespHeaderNames ==
    {"content-length", "transfer-encoding", "content-encoding", "connection",
     "content-type", "x-trace"}

\* header lists of up to MaxHeaders entries; a name may occur twice
HeaderSeqs(names) ==
    UNION {[1..n -> {<<h, "v">> : h \in names}] : n \in 0..MaxHeaders}

\* bodies of 0, 1 and LongBody bytes
Bodies == {<< >>, <<7>>, [i \in 1..LongBody |-> 7]}

\* usize::to_string: the decimal digits of n
RECURSIVE Decimal(_)
Decimal(n) == IF n < 10 THEN <<n>> ELSE Append(Decimal(n \div 10), n % 10)

\* fn should_skip_request_header
ShouldSkipRequestHeader(name) ==
    name \in {"host", "content-length", "connection"}

\* Faulty variant of the response filter: content-encoding is passed on.
ShouldSkipResponseHeader_KeepEncoding(name) ==
    name \in {"content-length", "transfer-encoding", "connection"}

\* fn should_skip_response_header
ShouldSkipResponseHeader(name) ==
    name \in {"content-length", "transfer-encoding", "content-encoding",
              "connection"}

KeepRequestHeader(h) == ~ShouldSkipRequestHeader(h[1])
KeepResponseHeader(h) == ~ShouldSkipResponseHeader(h[1])

\* proxy_handler, lines 70-94: the request the handler sends to the backend
ForwardRequest(req, port) ==
    [url     |-> <<"http://127.0.0.1:", port, req.pq>>,
     method  |-> req.method,
     headers |-> SelectSeq(req.headers, KeepRequestHeader),
     body    |-> req.body]

\* proxy_handler, lines 95-117: the response built from the backend's
RelayResponse(resp) ==
    [status  |-> resp.status,
     headers |-> Append(SelectSeq(resp.headers, KeepResponseHeader),
                        <<"content-length", Decimal(Len(resp.body))>>),
     body    |-> resp.body]

\* the requests and backend responses the rewriting is applied to
ProxyInputs ==
    {[op |-> "forward", port |-> p, done |-> FALSE, out |-> [url |-> << >>],
      req |-> [method |-> m, pq |-> q, headers |-> h, body |-> b]] :
        p \in Ports, m \in {"GET", "POST"}, q \in {"/tasks", "/tasks?done=1"},
        h \in HeaderSeqs(ReqHeaderNames), b \in Bodies}
    \cup {[op |-> "relay", done |-> FALSE, out |-> [status |-> 0],
           resp |-> [status |-> c, headers |-> h, body |-> b]] :
              c \in {200, 404, 500}, h \in HeaderSeqs(RespHeaderNames),
              b \in Bodies}

\* The inputs of the helper functions of backend_support.rs.
FnInputs ==
    {[op |-> "detect", occ |-> o, done |-> FALSE, out |-> 0] :
        o \in [Ports -> HealthReports]}
    \cup {[op |-> "identify", r |-> r, done |-> FALSE, out |-> FALSE] :
              r \in HealthReports}
    \cup {[op |-> "pick", free |-> f, draws |-> d, done |-> FALSE, out |-> 0] :
              f \in SUBSET Ports, d \in [1..Draws -> Ports]}
    \cup ProxyInputs

\* one helper function, about to be called on one input
InitFn ==
    /\ Init!1 /\ Init!2 /\ Init!3 /\ Init!4 /\ Init!5 /\ Init!6
    /\ Init!7 /\ Init!8 /\ Init!9 /\ Init!10 /\ Init!11
    /\ \E f \in FnInputs : hist = [HistInit EXCEPT !.fn = f]

\* The run so far as a prefix of: launch fails, launch fails, launch succeeds.
\* Any other event (an adoption, an exit, a failed probe, a stop, a second
\* start) takes the run off that scenario for good.
ScenNext(cur, ev) ==
    CASE ev = "fail" /\ cur = "start" -> "f1"
      [] ev = "fail" /\ cur = "f1"    -> "f2"
      [] ev = "ok"   /\ cur = "f2"    -> "ok3"
      [] OTHER                        -> "off"

\* Faulty variant of the URL getter: the stored port is used as it is, also
\* before start_backend has stored one.
GetBackendUrl_NoDefault(pp) == <<"http://127.0.0.1:", pp>>

\* pub fn get_backend_url, given what proxy_port loads: the configured port of
\* the mode when nothing is stored yet, then format!("http://127.0.0.1:{}")
GetBackendUrl(pp) ==
    <<"http://127.0.0.1:", IF pp = 0 THEN ProxyPort ELSE pp>>

\* ------------------------------------------------- start_backend (caller)
ApiAt(l) == api.pc = l
ApiGo(l) == api' = [api EXCEPT !.pc = l]
\* start_backend returns Ok(()) or Err(..) to its caller
ApiRet(r) == api' = [api EXCEPT !.pc = "idle", !.ret = r]

\* tokio::spawn(backend_supervisor(app_handle, mode))
SpawnSupervisor == [sup EXCEPT ![hist.starts] = [SupInit EXCEPT !.pc = "top"]]

\* state.stopping.store(false)
StartBackend_stopping ==
    /\ ApiAt("idle")
    /\ hist.starts < hist.lim.starts
    /\ stopping' = FALSE
    /\ hist' = [hist EXCEPT !.starts = @ + 1,
                            !.scen = IF hist.starts = 0 THEN @ ELSE "off"]
    /\ api' = [api EXCEPT !.pc = "sb_port", !.ret = "none"]
    /\ UNCHANGED <<backend_port, ready, proxy_port, proxy_started, process,
                   child, listeners, sup, px>>

\* state.backend_port.store(0)
StartBackend_port ==
    /\ ApiAt("sb_port")
    /\ backend_port' = 0
    /\ ApiGo("sb_ready")
    /\ UNCHANGED <<ready, proxy_port, stopping, proxy_started, process,
                   child, listeners, sup, px, hist>>

\* state.ready.store(false)
StartBackend_ready ==
    /\ ApiAt("sb_ready")
    /\ ready' = FALSE
    /\ ApiGo("sb_proxy")
    /\ UNCHANGED <<backend_port, proxy_port, stopping, proxy_started, process,
                   child, listeners, sup, px, hist>>

\* Faulty variant of the proxy section: proxy_started is not consulted, every
\* call tries to bind.
StartBackend_proxy_NoSwap ==
    /\ ApiAt("sb_proxy")
    /\ proxy_port' = ProxyPort
    /\ \E bound \in BOOLEAN : \E r \in HealthReports :
        /\ bound => listeners = 0
        /\ IF FALSE
           THEN /\ UNCHANGED <<proxy_started, listeners>>
                /\ sup' = SpawnSupervisor
                /\ ApiRet("ok")
           ELSE IF bound
           THEN /\ proxy_started' = TRUE
                /\ listeners' = listeners + 1
                /\ sup' = SpawnSupervisor
                /\ ApiRet("ok")
           ELSE /\ proxy_started' = FALSE
                /\ UNCHANGED <<listeners, sup>>
                /\ IF IsLifetraceBackend(r) THEN ApiGo("sb_fport")
                   ELSE ApiRet("err")
        /\ hist' = IF ~bound /\ IsLifetraceBackend(r)
                   THEN [hist EXCEPT !.probed = ProxyPort, !.scen = "off"]
                   ELSE hist
    /\ UNCHANGED <<backend_port, ready, stopping, process, child, px>>

\* Faulty variant of the proxy section: proxy_started is left true when the
\* bind has failed.
StartBackend_proxy_NoReset ==
    /\ ApiAt("sb_proxy")
    /\ proxy_port' = ProxyPort
    /\ \E bound \in BOOLEAN : \E r \in HealthReports :
        /\ bound => listeners = 0
        /\ IF proxy_started
           THEN /\ UNCHANGED <<proxy_started, listeners>>
                /\ sup' = SpawnSupervisor
                /\ ApiRet("ok")
           ELSE IF bound
           THEN /\ proxy_started' = TRUE
                /\ listeners' = listeners + 1
                /\ sup' = SpawnSupervisor
                /\ ApiRet("ok")
           ELSE /\ proxy_started' = TRUE
                /\ UNCHANGED <<listeners, sup>>
                /\ IF IsLifetraceBackend(r) THEN ApiGo("sb_fport")
                   ELSE ApiRet("err")
        /\ hist' = IF ~proxy_started /\ ~bound /\ IsLifetraceBackend(r)
                   THEN [hist EXCEPT !.probed = ProxyPort, !.scen = "off"]
                   ELSE hist
    /\ UNCHANGED <<backend_port, ready, stopping, process, child, px>>

\* state.proxy_port.store(proxy_port);
\* if !state.proxy_started.swap(true) {
\*     if let Err(err) = start_proxy_server(..) {      (TcpListener::bind)
\*         state.proxy_started.store(false);
\*         if is_lifetrace_backend(proxy_port) { .. } else { return Err } } }
\* and, when nothing failed, the tokio::spawn of the supervisor and Ok(())
StartBackend_proxy ==
    /\ ApiAt("sb_proxy")
    /\ proxy_port' = ProxyPort
    /\ \E bound \in BOOLEAN : \E r \in HealthReports :
        /\ bound => listeners = 0
        /\ IF proxy_started
           THEN /\ UNCHANGED <<proxy_started, listeners>>
                /\ sup' = SpawnSupervisor
                /\ ApiRet("ok")
           ELSE IF bound
           THEN /\ proxy_started' = TRUE
                /\ listeners' = listeners + 1
                /\ sup' = SpawnSupervisor
                /\ ApiRet("ok")
           ELSE /\ proxy_started' = FALSE
                /\ UNCHANGED <<listeners, sup>>
                /\ IF IsLifetraceBackend(r) THEN ApiGo("sb_fport")
                   ELSE ApiRet("err")
        /\ hist' = IF ~proxy_started /\ ~bound /\ IsLifetraceBackend(r)
                   THEN [hist EXCEPT !.probed = ProxyPort, !.scen = "off"]
                   ELSE hist
    /\ UNCHANGED <<backend_port, ready, stopping, process, child, px>>

\* state.backend_port.store(proxy_port)
StartBackend_fallback_port ==
    /\ ApiAt("sb_fport")
    /\ backend_port' = ProxyPort
    /\ ApiGo("sb_fready")
    /\ UNCHANGED <<ready, proxy_port, stopping, proxy_started, process,
                   child, listeners, sup, px, hist>>

\* state.ready.store(true); then the tokio::spawn of the supervisor and Ok(())
StartBackend_fallback_ready ==
    /\ ApiAt("sb_fready")
    /\ ready' = TRUE
    /\ sup' = SpawnSupervisor
    /\ ApiRet("ok")
    /\ UNCHANGED <<backend_port, proxy_port, stopping, proxy_started, process,
                   child, listeners, px, hist>>

\* -------------------------------------------------- stop_backend (caller)
\* state.stopping.store(true)
StopBackend_stopping ==
    /\ ApiAt("idle")
    /\ stopping' = TRUE
    /\ ApiGo("st_ready")
    /\ hist' = [hist EXCEPT
           !.told = {s \in Sup : sup[s].pc \notin {"none", "done"}},
           !.scen = "off"]
    /\ UNCHANGED <<backend_port, ready, proxy_port, proxy_started, process,
                   child, listeners, sup, px>>

\* state.ready.store(false)
StopBackend_ready ==
    /\ ApiAt("st_ready")
    /\ ready' = FALSE
    /\ ApiGo("st_take")
    /\ UNCHANGED <<backend_port, proxy_port, stopping, proxy_started, process,
                   child, listeners, sup, px, hist>>

\* Faulty variant of the take: with an empty handle it signals whatever
\* spawned process listens on backend_port.
StopBackend_take_ByPort ==
    /\ ApiAt("st_take")
    /\ IF process # 0
       THEN /\ child' = [child EXCEPT ![process].sigs = @ \cup {"stop_term"}]
            /\ process' = 0
            /\ api' = [api EXCEPT !.pc = "st_kill", !.held = process]
       ELSE /\ child' = [i \in DOMAIN child |->
                           IF child[i].port = backend_port
                           THEN [child[i] EXCEPT !.sigs = @ \cup {"stop_term"}]
                           ELSE child[i]]
            /\ UNCHANGED process
            /\ ApiGo("idle")
    /\ UNCHANGED <<shared, listeners, sup, px, hist>>

\* Faulty variant of the take: the child is signalled through a reference
\* into the handle (as_mut) and left in it.
StopBackend_take_Peek ==
    /\ ApiAt("st_take")
    /\ IF process # 0
       THEN /\ child' = [child EXCEPT ![process].sigs = @ \cup {"stop_term"}]
            /\ UNCHANGED process
            /\ api' = [api EXCEPT !.pc = "st_kill", !.held = process]
       ELSE /\ UNCHANGED <<process, child>>
            /\ ApiGo("idle")
    /\ UNCHANGED <<shared, listeners, sup, px, hist>>

\* let mut guard = state.process.lock().unwrap();
\* if let Some(mut child) = guard.take() { libc::kill(child.id(), SIGTERM); ...
\* With an empty handle the function returns at once.
StopBackend_take ==
    /\ ApiAt("st_take")
    /\ IF process # 0
       THEN /\ child' = [child EXCEPT ![process].sigs = @ \cup {"stop_term"}]
            /\ process' = 0
            /\ api' = [api EXCEPT !.pc = "st_kill", !.held = process]
       ELSE /\ UNCHANGED <<process, child>>
            /\ ApiGo("idle")
    /\ UNCHANGED <<shared, listeners, sup, px, hist>>

\* the process mutex is held by stop_backend from its take to its return
Locked == api.pc = "st_kill"

\* ... std::thread::sleep(2 s); match child.try_wait() { Ok(Some(_)) => {}
\* Ok(None) | Err(_) => { child.kill(); } } }      (the guard is dropped here)
StopBackend_kill ==
    /\ ApiAt("st_kill")
    /\ child' = IF child[api.held].alive
                THEN [child EXCEPT ![api.held] =
                          [port |-> child[api.held].port, alive |-> FALSE,
                           sigs |-> child[api.held].sigs \cup {"stop_kill"}]]
                ELSE child
    /\ api' = [api EXCEPT !.pc = "idle", !.held = 0]
    /\ UNCHANGED <<shared, process, listeners, sup, px, hist>>

\* ------------------------------------------------------ backend_supervisor
\* what no supervisor step touches
aside == <<proxy_port, proxy_started, listeners, api, px>>

At(s, l) == sup[s].pc = l
SupSet(s, r) == sup' = [sup EXCEPT ![s] = r]
Go(s, l) == SupSet(s, [sup[s] EXCEPT !.pc = l])

\* The end of an iteration: sleep(interval), continue.  The next iteration
\* starts with `let mut exited = false; let mut managed = false;` and with
\* none of the other locals of this one alive.
Continue(s) ==
    [sup[s] EXCEPT !.pc = "top", !.managed = FALSE, !.exited = FALSE,
                   !.bp = 0, !.det = 0, !.port = 0, !.cid = 0,
                   !.ident = "none"]

\* loop { if state.stopping.load() { break; } ... }
SupTop(s) ==
    /\ At(s, "top")
    /\ Go(s, IF stopping THEN "done" ELSE "poll")
    /\ hist' = IF stopping THEN [hist EXCEPT !.told = @ \ {s}] ELSE hist
    /\ UNCHANGED <<shared, process, child, listeners, api, px>>

\* Under the process mutex: managed = guard.is_some(); child.try_wait();
\* an exited child is dropped from the handle.
SupPoll(s) ==
    /\ At(s, "poll")
    /\ ~Locked
    /\ LET has  == process # 0
           gone == has /\ ~child[process].alive
       IN /\ process' = IF gone THEN 0 ELSE process
          /\ SupSet(s, [sup[s] EXCEPT !.managed = has, !.exited = gone,
                                      !.pc = IF gone THEN "exit_ready"
                                             ELSE "load"])
          /\ hist' = IF gone
                     THEN [hist EXCEPT !.stale = child[process].port,
                                       !.probed = 0, !.scen = "off"]
                     ELSE hist
    /\ UNCHANGED <<shared, child, listeners, api, px>>

\* if exited { state.ready.store(false);
SupExitReady(s) ==
    /\ At(s, "exit_ready")
    /\ ready' = FALSE
    /\ Go(s, "exit_port")
    /\ UNCHANGED <<backend_port, stopping, process, child, aside, hist>>

\* Faulty variant of the reaction to an exit: backend_port is left as it was.
SupExitPort_Keep(s) ==
    /\ At(s, "exit_port")
    /\ Go(s, "load")
    /\ UNCHANGED <<shared, process, child, listeners, api, px, hist>>

\*             state.backend_port.store(0); }
SupExitPort(s) ==
    /\ At(s, "exit_port")
    /\ backend_port' = 0
    /\ Go(s, "load")
    /\ UNCHANGED <<ready, stopping, process, child, aside, hist>>

\* let backend_port = state.backend_port.load(); and the branch on it:
\* a managed iteration with no port only sleeps and continues
SupLoad(s) ==
    /\ At(s, "load")
    /\ SupSet(s, IF sup[s].managed /\ backend_port = 0
                 THEN Continue(s)
                 ELSE [sup[s] EXCEPT
                          !.bp = backend_port,
                          !.pc = IF sup[s].managed THEN "m_probe"
                                 ELSE IF backend_port # 0 THEN "x_probe"
                                 ELSE "detect"])
    /\ UNCHANGED <<shared, process, child, listeners, api, px, hist>>

\* Faulty variant of the managed probe: an unhealthy answer makes the
\* supervisor stop the child and forget its port, so as to relaunch.
SupManagedProbe_Restart(s) ==
    /\ At(s, "m_probe")
    /\ ~Locked
    /\ \E r \in HealthReports :
        /\ ready' = CheckBackendHealth(r)
        /\ hist' = IF CheckBackendHealth(r)
                   THEN [hist EXCEPT !.probed = sup[s].bp]
                   ELSE [hist EXCEPT !.probed = 0, !.scen = "off"]
        /\ IF CheckBackendHealth(r)
           THEN UNCHANGED <<backend_port, process, child>>
           ELSE /\ backend_port' = 0
                /\ process' = 0
                /\ child' = IF process # 0
                            THEN [child EXCEPT ![process].sigs =
                                      @ \cup {"managed_term"}]
                            ELSE child
    /\ SupSet(s, Continue(s))
    /\ UNCHANGED <<stopping, aside>>

\* managed: let healthy = check_backend_health(backend_port).unwrap_or(false);
\* state.ready.store(healthy); sleep(interval); continue
SupManagedProbe(s) ==
    /\ At(s, "m_probe")
    /\ \E r \in HealthReports :
        /\ ready' = CheckBackendHealth(r)
        /\ hist' = IF CheckBackendHealth(r)
                   THEN [hist EXCEPT !.probed = sup[s].bp]
                   ELSE [hist EXCEPT !.probed = 0, !.scen = "off"]
    /\ SupSet(s, Continue(s))
    /\ UNCHANGED <<backend_port, stopping, process, child, aside>>

\* adopted: let healthy = check_backend_health(backend_port).unwrap_or(false);
\* healthy: ready.store(true); sleep(interval); continue
\* else:    ready.store(false);
SupExternalProbe(s) ==
    /\ At(s, "x_probe")
    /\ \E r \in HealthReports :
        /\ ready' = CheckBackendHealth(r)
        /\ SupSet(s, IF CheckBackendHealth(r) THEN Continue(s)
                     ELSE [sup[s] EXCEPT !.pc = "x_port"])
        /\ hist' = [hist EXCEPT
               !.probed = IF CheckBackendHealth(r) THEN sup[s].bp ELSE 0,
               !.scen = "off"]
    /\ UNCHANGED <<backend_port, stopping, process, child, aside>>

\* Faulty variant of the unhealthy arm: the port is cleared and the iteration
\* ends, leaving detection and launch to the next one.
SupExternalPort_Continue(s) ==
    /\ At(s, "x_port")
    /\ backend_port' = 0
    /\ SupSet(s, Continue(s))
    /\ UNCHANGED <<ready, stopping, process, child, aside, hist>>

\* adopted, unhealthy: state.backend_port.store(0); fall through to detection
SupExternalPort(s) ==
    /\ At(s, "x_port")
    /\ backend_port' = 0
    /\ Go(s, "detect")
    /\ UNCHANGED <<ready, stopping, process, child, aside, hist>>

\* Faulty variant of the detection step: the adopting branch lacks its
\* `continue`, so the iteration goes on to a launch after a port was found.
SupDetect_NoContinue(s) ==
    /\ At(s, "detect")
    /\ \E occ \in [Ports -> DetectReports] :
        LET found == DetectRunningBackendPort(occ)
        IN /\ SupSet(s, [sup[s] EXCEPT !.det = found, !.pc = "pick"])
           /\ backend_port' = IF found # 0 THEN found ELSE backend_port
           /\ hist' = IF found # 0
                      THEN [hist EXCEPT !.probed = found, !.scen = "off"]
                      ELSE hist
    /\ UNCHANGED <<ready, stopping, process, child, aside>>

\* if let Some(port) = detect_running_backend_port(mode) {
\*     state.backend_port.store(port);
SupDetect(s) ==
    /\ At(s, "detect")
    /\ \E occ \in [Ports -> DetectReports] :
        LET found == DetectRunningBackendPort(occ)
        IN /\ SupSet(s, [sup[s] EXCEPT !.det = found,
                             !.pc = IF found # 0 THEN "a_ready" ELSE "pick"])
           /\ backend_port' = IF found # 0 THEN found ELSE backend_port
           /\ hist' = IF found # 0
                      THEN [hist EXCEPT !.probed = found, !.scen = "off"]
                      ELSE hist
    /\ UNCHANGED <<ready, stopping, process, child, aside>>

\*     state.ready.store(true); backoff = 500ms; sleep(interval); continue }
SupAdoptReady(s) ==
    /\ At(s, "a_ready")
    /\ ready' = TRUE
    /\ SupSet(s, [Continue(s) EXCEPT !.backoff = BackoffFloor])
    /\ hist' = [hist EXCEPT !.nfail[s] = 0, !.waited[s] = 0, !.stale = 0]
    /\ UNCHANGED <<backend_port, stopping, process, child, aside>>

\* a launch may fail only while the count of failures is below its bound
MayFail(s) == hist.nfail[s] < hist.lim.fails

\* Faulty variant of the allocation step: with no free port the iteration
\* just ends, without the failure arm and its backoff.
SupPick_NoBackoff(s) ==
    /\ At(s, "pick")
    /\ \E free \in SUBSET Ports : \E p \in PickBackendPort(free) :
        /\ p = 0 => MayFail(s)
        /\ SupSet(s, IF p = 0 THEN Continue(s)
                     ELSE [sup[s] EXCEPT !.port = p, !.pc = "spawn"])
        /\ ready' = IF p = 0 THEN ready ELSE FALSE
    /\ hist' = [hist EXCEPT !.waited[s] = 0]
    /\ UNCHANGED <<backend_port, stopping, process, child, aside>>

\* start_backend_process: let port = pick_backend_port(mode)?;
\*                        state.ready.store(false);
SupPick(s) ==
    /\ At(s, "pick")
    /\ \E free \in SUBSET Ports : \E p \in PickBackendPort(free) :
        /\ p = 0 => MayFail(s)
        /\ SupSet(s, [sup[s] EXCEPT !.port = p,
                          !.pc = IF p = 0 THEN "fail" ELSE "spawn"])
        /\ ready' = IF p = 0 THEN ready ELSE FALSE
    /\ hist' = [hist EXCEPT !.waited[s] = 0]
    /\ UNCHANGED <<backend_port, stopping, process, child, aside>>

\* start_backend_process: resolving the runtime, paths and dependencies, then
\* command.spawn(); any of them may fail with Err.
SupSpawn(s) ==
    /\ At(s, "spawn")
    /\ \/ /\ MayFail(s)
          /\ Go(s, "fail")
          /\ UNCHANGED child
       \/ /\ Len(child) < hist.lim.spawns
          /\ child' = Append(child, [port |-> sup[s].port, alive |-> TRUE,
                                     sigs |-> {}])
          /\ SupSet(s, [sup[s] EXCEPT !.cid = Len(child) + 1,
                                      !.pc = "store_handle"])
    /\ UNCHANGED <<shared, process, listeners, api, px, hist>>

\* start_backend_process: *guard = Some(child)
SupStoreHandle(s) ==
    /\ At(s, "store_handle")
    /\ ~Locked
    /\ process' = sup[s].cid
    /\ Go(s, "wait")
    /\ UNCHANGED <<shared, child, listeners, api, px, hist>>

\* fn stop_managed_backend (unix): guard.take(), then SIGTERM to that child
StopManagedBackend ==
    /\ process' = 0
    /\ child' = IF process # 0
                THEN [child EXCEPT ![process].sigs = @ \cup {"managed_term"}]
                ELSE child

\* What the launch learnt about the child it waited for: it never answered
\* /health in time, or what its /health answer identified it as.
Ident(up, r) ==
    CASE ~up                 -> "timeout"
      [] r.kind = "garbage"  -> "unparsable"
      [] r.kind \in {"refused", "status"} -> "unreachable"
      [] r.app = "none"      -> "absent"
      [] r.app = "other"     -> "different"
      [] r.mode = "none"     -> "mode_absent"
      [] r.mode # ModeLabel  -> "mode_differs"
      [] OTHER               -> "match"

\* start_backend_process: wait_for_backend(port, ...) and then
\* verify_backend_mode(port, mode_label); on either Err stop_managed_backend()
\* and return Err.  Else Ok(port) => state.backend_port.store(port)
SupWait(s) ==
    /\ At(s, "wait")
    /\ \E up \in BOOLEAN : \E r \in HealthReports :
        IF up /\ VerifyBackendMode(r)
        THEN /\ backend_port' = sup[s].port
             /\ SupSet(s, [sup[s] EXCEPT !.pc = "ok_ready",
                                         !.ident = Ident(up, r)])
             /\ hist' = [hist EXCEPT !.probed = sup[s].port]
             /\ UNCHANGED <<process, child>>
        ELSE /\ MayFail(s)
             /\ ~Locked
             /\ StopManagedBackend
             /\ SupSet(s, [sup[s] EXCEPT !.pc = "fail",
                                         !.ident = Ident(up, r)])
             /\ hist' = [hist EXCEPT !.probed = IF up THEN @ ELSE 0]
             /\ UNCHANGED backend_port
    /\ UNCHANGED <<ready, stopping, aside>>

\* Faulty variant of the success arm: ready is not stored.
SupOkReady_NoStore(s) ==
    /\ At(s, "ok_ready")
    /\ SupSet(s, [Continue(s) EXCEPT !.backoff = BackoffFloor])
    /\ hist' = [hist EXCEPT !.nfail[s] = 0, !.waited[s] = 0, !.stale = 0,
                            !.scen = ScenNext(@, "ok")]
    /\ UNCHANGED <<shared, process, child, listeners, api, px>>

\* Faulty variant of the success arm: the backoff is left where the failures
\* before this launch took it.
SupOkReady_KeepBackoff(s) ==
    /\ At(s, "ok_ready")
    /\ ready' = TRUE
    /\ SupSet(s, Continue(s))
    /\ hist' = [hist EXCEPT !.nfail[s] = 0, !.waited[s] = 0, !.stale = 0,
                            !.scen = ScenNext(@, "ok")]
    /\ UNCHANGED <<backend_port, stopping, process, child, aside>>

\* Ok(port) => state.ready.store(true); backoff = 500ms; then the sleep(interval)
\* that ends the iteration
SupOkReady(s) ==
    /\ At(s, "ok_ready")
    /\ ready' = TRUE
    /\ SupSet(s, [Continue(s) EXCEPT !.backoff = BackoffFloor])
    /\ hist' = [hist EXCEPT !.nfail[s] = 0, !.waited[s] = 0, !.stale = 0,
                            !.scen = ScenNext(@, "ok")]
    /\ UNCHANGED <<backend_port, stopping, process, child, aside>>

\* Faulty variant of the failure arm: the error is propagated out of the
\* supervisor (as with `?`), which ends its loop.
SupFail_Exit(s) ==
    /\ At(s, "fail")
    /\ ready' = FALSE
    /\ SupSet(s, [Continue(s) EXCEPT !.pc = "done"])
    /\ hist' = [hist EXCEPT !.nfail[s] = @ + 1,
                            !.waited[s] = sup[s].backoff + Interval,
                            !.scen = ScenNext(@, "fail")]
    /\ UNCHANGED <<backend_port, stopping, process, child, aside>>

\* Err(err) => state.ready.store(false); sleep(backoff);
\* backoff = (backoff * 2).min(max_backoff); then the sleep(interval) that ends
\* the iteration
SupFail(s) ==
    /\ At(s, "fail")
    /\ ready' = FALSE
    /\ SupSet(s, [Continue(s) EXCEPT
           !.backoff = Min(sup[s].backoff * 2, MaxBackoff)])
    /\ hist' = [hist EXCEPT !.nfail[s] = @ + 1,
                            !.waited[s] = sup[s].backoff + Interval,
                            !.scen = ScenNext(@, "fail")]
    /\ UNCHANGED <<backend_port, stopping, process, child, aside>>

\* ------------------------------------------------------------ environment
\* A spawned child exits on its own (a crash, or after a SIGTERM).
ChildExit ==
    /\ \E c \in 1..Len(child) :
        /\ child[c].alive
        /\ child' = [child EXCEPT ![c].alive = FALSE]
    /\ UNCHANGED <<shared, process, listeners, sup, api, px, hist>>

\* ------------------------------------------------------------ proxy_handler
\* Faulty variant of the readiness payload: the port is reported in the
\* "starting" body as well.
ReadyResponse_PortAlways(rdy, port) ==
    IF rdy
    THEN [code |-> 200, body |-> [status |-> "ready", backend_port |-> port]]
    ELSE [code |-> 503, body |-> [status |-> "starting", backend_port |-> port]]

\* fn ready_response(ready, backend_port)
ReadyResponse(rdy, port) ==
    IF rdy
    THEN [code |-> 200, body |-> [status |-> "ready", backend_port |-> port]]
    ELSE [code |-> 503, body |-> [status |-> "starting"]]

\* what a backend can answer to a forwarded request
BackendCodes == {200, 404, 500}

\* a request arrives at the proxy listener
ProxyRequest ==
    /\ px.pc \in {"idle", "done"}
    /\ listeners > 0
    /\ \E path \in Paths :
        px' = [pc |-> "p_port", path |-> path, port |-> 0, ready |-> FALSE,
               code |-> 0, body |-> [status |-> "none"], fwd |-> 0,
               at |-> hist.scen = "ok3"]
    /\ UNCHANGED <<shared, process, child, listeners, sup, api, hist>>

\* let backend_port = state.backend_port.load()
ProxyLoadPort ==
    /\ px.pc = "p_port"
    /\ px' = [px EXCEPT !.port = backend_port, !.pc = "p_ready"]
    /\ UNCHANGED <<shared, process, child, listeners, sup, api, hist>>

\* Faulty variant of the handler's decision: the gate looks at the port only.
ProxyDecide_PortOnly(path, port, rdy) ==
    IF path = "/ready"
    THEN [pc |-> "done", fwd |-> 0] @@ ReadyResponse(rdy, port)
    ELSE IF port = 0
    THEN [pc |-> "done", fwd |-> 0] @@ ReadyResponse(FALSE, port)
    ELSE [pc |-> "p_fwd", fwd |-> port, code |-> 0,
          body |-> [status |-> "none"]]

\* the handler's decision once both values are loaded
ProxyDecide(path, port, rdy) ==
    IF path = "/ready"
    THEN [pc |-> "done", fwd |-> 0] @@ ReadyResponse(rdy, port)
    ELSE IF port = 0 \/ ~rdy
    THEN [pc |-> "done", fwd |-> 0] @@ ReadyResponse(FALSE, port)
    ELSE [pc |-> "p_fwd", fwd |-> port, code |-> 0,
          body |-> [status |-> "none"]]

\* let ready = state.ready.load(); then answer or start forwarding
ProxyLoadReady ==
    /\ px.pc = "p_ready"
    /\ px' = ProxyDecide(px.path, px.port, ready)
                 @@ [path |-> px.path, port |-> px.port, ready |-> ready,
                     at |-> px.at]
    /\ UNCHANGED <<shared, process, child, listeners, sup, api, hist>>

\* Faulty variant of the forwarding step: a transport failure is passed on
\* as a gateway error and the backend is marked not ready.
ProxyForward_RawError ==
    /\ px.pc = "p_fwd"
    /\ \/ /\ \E c \in BackendCodes :
               px' = [px EXCEPT !.pc = "done", !.code = c,
                                !.body = [status |-> "relayed"]]
          /\ UNCHANGED ready
       \/ /\ px' = [px EXCEPT !.pc = "done", !.code = 502,
                              !.body = [status |-> "error"]]
          /\ ready' = FALSE
    /\ UNCHANGED <<backend_port, proxy_port, stopping, proxy_started, process,
                   child, listeners, sup, api, hist>>

\* Faulty variant of the forwarding step: a transport failure makes the
\* handler forget the backend's port.
ProxyForward_ClearPort ==
    /\ px.pc = "p_fwd"
    /\ \/ /\ \E c \in BackendCodes :
               px' = [px EXCEPT !.pc = "done", !.code = c,
                                !.body = [status |-> "relayed"]]
          /\ UNCHANGED backend_port
       \/ /\ px' = [px EXCEPT !.pc = "done",
                              !.code = ReadyResponse(FALSE, px.port).code,
                              !.body = ReadyResponse(FALSE, px.port).body]
          /\ backend_port' = 0
    /\ UNCHANGED <<ready, proxy_port, stopping, proxy_started, process,
                   child, listeners, sup, api, hist>>

\* builder.body(body_bytes).send(): the backend's answer is relayed, a
\* transport failure is answered with the starting payload
ProxyForward ==
    /\ px.pc = "p_fwd"
    /\ \/ \E c \in BackendCodes :
            px' = [px EXCEPT !.pc = "done", !.code = c,
                             !.body = [status |-> "relayed"]]
       \/ px' = [px EXCEPT !.pc = "done",
                           !.code = ReadyResponse(FALSE, px.port).code,
                           !.body = ReadyResponse(FALSE, px.port).body]
    /\ UNCHANGED <<shared, process, child, listeners, sup, api, hist>>

\* ------------------------------------------------------------ specification
\* start_backend, stop_backend, the supervisors and the children
NextBackend ==
    \/ StartBackend_stopping
    \/ StartBackend_port
    \/ StartBackend_ready
    \/ StartBackend_proxy
    \/ StartBackend_fallback_port
    \/ StartBackend_fallback_ready
    \/ StopBackend_stopping
    \/ StopBackend_ready
    \/ StopBackend_take
    \/ StopBackend_kill
    \/ \E s \in Sup : SupTop(s)
    \/ \E s \in Sup : SupPoll(s)
    \/ \E s \in Sup : SupExitReady(s)
    \/ \E s \in Sup : SupExitPort(s)
    \/ \E s \in Sup : SupLoad(s)
    \/ \E s \in Sup : SupManagedProbe(s)
    \/ \E s \in Sup : SupExternalProbe(s)
    \/ \E s \in Sup : SupExternalPort(s)
    \/ \E s \in Sup : SupDetect(s)
    \/ \E s \in Sup : SupAdoptReady(s)
    \/ \E s \in Sup : SupPick(s)
    \/ \E s \in Sup : SupSpawn(s)
    \/ \E s \in Sup : SupStoreHandle(s)
    \/ \E s \in Sup : SupWait(s)
    \/ \E s \in Sup : SupOkReady(s)
    \/ \E s \in Sup : SupFail(s)
    \/ ChildExit

\* the requests the proxy serves
NextProxy ==
    \/ ProxyRequest
    \/ ProxyLoadPort
    \/ ProxyLoadReady
    \/ ProxyForward

Next == NextBackend

\* ------------------------------------------------ the helpers on their own
FnApply(op, out) ==
    /\ hist.fn.op = op
    /\ ~hist.fn.done
    /\ hist' = [hist EXCEPT !.fn.done = TRUE, !.fn.out = out]
    /\ UNCHANGED <<shared, process, child, listeners, sup, api, px>>

FnDetect == FnApply("detect", DetectRunningBackendPort(hist.fn.occ))

FnIdentify == FnApply("identify", IsLifetraceBackend(hist.fn.r))

FnPick == FnApply("pick", PickWithDraws(hist.fn.free, hist.fn.draws))

FnForward == FnApply("forward", ForwardRequest(hist.fn.req, hist.fn.port))

FnRelay == FnApply("relay", RelayResponse(hist.fn.resp))

NextFn ==
    \/ FnDetect
    \/ FnIdentify
    \/ FnPick
    \/ FnForward
    \/ FnRelay

NextOnce == NextBackend \/ NextProxy

\* one call of start_backend
NextStart ==
    \/ StartBackend_stopping
    \/ StartBackend_port
    \/ StartBackend_ready
    \/ StartBackend_proxy
    \/ StartBackend_fallback_port
    \/ StartBackend_fallback_ready

\* the next step of supervisor s, wherever it is in its loop
SupStep(s) ==
    \/ SupTop(s)
    \/ SupPoll(s)
    \/ SupExitReady(s)
    \/ SupExitPort(s)
    \/ SupLoad(s)
    \/ SupManagedProbe(s)
    \/ SupExternalProbe(s)
    \/ SupExternalPort(s)
    \/ SupDetect(s)
    \/ SupAdoptReady(s)
    \/ SupPick(s)
    \/ SupSpawn(s)
    \/ SupStoreHandle(s)
    \/ SupWait(s)
    \/ SupOkReady(s)
    \/ SupFail(s)

\* a run in which stop_backend is never called
NextLive ==
    \/ NextStart
    \/ \E s \in Sup : SupStep(s)
    \/ ChildExit

\* The tokio runtime keeps polling a spawned task whose await can complete
\* (every sleep and request of the loop has a timeout), and the caller of
\* start_backend runs to its return.  Nothing is assumed of the children.
Fairness ==
    /\ WF_vars(NextStart)
    /\ \A s \in Sup : WF_vars(SupStep(s))

\* start_backend and stop_backend called in any order, any number of times
Spec == Init /\ [][Next]_vars

\* start_backend called once, stop_backend at any time, and the proxy serving
SpecOnce == InitOnce /\ [][NextOnce]_vars

\* start_backend called once, stop_backend never, and every task scheduled
SpecLive == InitOnce /\ [][NextLive]_vars /\ Fairness

\* start_backend called once, stop_backend never, long runs of failures
SpecBackoff == InitBackoff /\ [][NextLive]_vars

\* a helper function of backend_support.rs applied to each of its inputs
SpecFn == InitFn /\ [][NextFn]_vars

\* ================================================================ properties
RECURSIVE Pow2(_)
Pow2(n) == IF n = 0 THEN 1 ELSE 2 * Pow2(n - 1)

\* the steps of an iteration that belong to a launch of a managed child
LaunchPcs == {"pick", "spawn", "store_handle", "wait", "ok_ready", "fail"}

\* C1: whenever ready is true, backend_port is not 0, in every state reached
\* by any interleaving of start_backend, the supervisors and stop_backend.
C1_ReadyImpliesPort == ready => backend_port # 0

\* C2: an iteration in which detect_running_backend_port found a port adopts
\* it (backend_port is set to the found port, then ready to true) and ends:
\* it takes no step of a launch, spawns no child and stores no handle.
C2_NoDoubleLaunch ==
    [][\A s \in Sup :
        /\ (At(s, "detect") /\ sup'[s] # sup[s] /\ sup'[s].det # 0) =>
               /\ backend_port' = sup'[s].det
               /\ sup'[s].pc = "a_ready"
               /\ process' = process /\ child' = child
        /\ (sup[s].det # 0 /\ sup'[s] # sup[s]) =>
               /\ sup[s].pc = "a_ready" /\ sup'[s].pc = "top"
               /\ ready'
               /\ process' = process /\ child' = child
        /\ sup'[s].pc \in LaunchPcs => sup'[s].det = 0]_vars

\* a supervisor that has just found a running backend and adopted its port
C2_Witness ==
    \E s \in Sup : /\ sup[s].det # 0 /\ At(s, "a_ready")
                   /\ backend_port = sup[s].det /\ process = 0

\* C3: the wait between the end of failed launch n (n >= 1 consecutive
\* failures) and the start of launch n+1 is min(500 ms * 2^(n-1), 10 s).
C3_BackoffSchedule ==
    \A s \in Sup :
        (At(s, "pick") /\ hist.nfail[s] >= 1) =>
            hist.waited[s] = Min(BackoffFloor * Pow2(hist.nfail[s] - 1),
                                 MaxBackoff)

\* C4: a request for a path other than /ready that the handler sees with
\* backend_port = 0 or ready = false is answered 503 {"status":"starting"}
\* and is never forwarded to a backend.
C4_ProxyGating ==
    (px.path # "/ready" /\ px.pc \in {"p_fwd", "done"}
        /\ (px.port = 0 \/ ~px.ready)) =>
            /\ px.pc = "done"
            /\ px.fwd = 0
            /\ px.code = 503
            /\ px.body = [status |-> "starting"]

\* a gated request: the port is known, ready is false, answered "starting"
C4_Witness ==
    /\ px.pc = "done" /\ px.path = "/tasks"
    /\ px.port # 0 /\ ~px.ready
    /\ px.code = 503 /\ px.fwd = 0

\* C5: GET /ready is answered by the proxy itself and never forwarded: 200
\* {"status":"ready","backend_port":port} when ready was true, otherwise 503
\* {"status":"starting"} with no backend_port field.
C5_ReadyEndpoint ==
    (px.path = "/ready" /\ px.pc \notin {"idle", "p_port", "p_ready"}) =>
        /\ px.pc = "done"
        /\ px.fwd = 0
        /\ IF px.ready
           THEN /\ px.code = 200
                /\ px.body = [status |-> "ready", backend_port |-> px.port]
           ELSE /\ px.code = 503
                /\ px.body = [status |-> "starting"]
                /\ "backend_port" \notin DOMAIN px.body

\* /ready answered "starting" while a port is already published
C5_Witness ==
    /\ px.pc = "done" /\ px.path = "/ready"
    /\ ~px.ready /\ px.port # 0 /\ px.code = 503

\* the supervisors that have been started
Running == {s \in Sup : sup[s].pc # "none"}

\* C6 (as amended): the iteration that finds the managed child exited clears
\* the handle, ready and backend_port and does no detection and no launch;
\* from then until a port is published again backend_port stays 0 and ready
\* false, no health check of a current port is made, and the next port
\* published is the one a fresh detection found or the one the new launch
\* was given (which may be the same number as the port of the exited child).
C6_ExitThenRelaunch ==
    \A s \in Running :
        /\ sup[s].exited =>
               /\ sup[s].pc \in {"exit_ready", "exit_port", "load"}
               /\ process = 0
               /\ At(s, "load") => (backend_port = 0 /\ ~ready)
        /\ (hist.stale # 0 /\ ~sup[s].exited) =>
               /\ sup[s].pc \in {"top", "poll", "load", "detect", "a_ready",
                                  "done"} \cup LaunchPcs
               /\ ~sup[s].managed
               /\ ~ready
               /\ sup[s].pc \notin {"a_ready", "ok_ready"} => backend_port = 0
               /\ At(s, "a_ready") => backend_port = sup[s].det
               /\ At(s, "ok_ready") =>
                      /\ backend_port = sup[s].port
                      /\ child[Len(child)].port = sup[s].port

\* C6 (as stated): as above, and the port published after the exit is never
\* the number of the stale port.
C6_NeverStalePort ==
    /\ C6_ExitThenRelaunch
    /\ \A s \in Running :
           (hist.stale # 0 /\ sup[s].pc \notin {"exit_ready", "exit_port"}) =>
               backend_port # hist.stale

\* a relaunch after an observed exit that was given the port of the exited
\* child again
C6_Witness ==
    \E s \in Running :
        /\ hist.stale # 0 /\ At(s, "ok_ready")
        /\ Len(child) = 2 /\ backend_port = hist.stale

C8_ReadyOnlyAfterProbe ==
    ready => \/ backend_port # 0 /\ hist.probed = backend_port
             \/ \E s \in Running : At(s, "exit_ready")

\* C9: a supervisor that was running when stop_backend set stopping leaves
\* its loop the next time it is at the top of an iteration; it starts no
\* further iteration.
C9_StopObserved ==
    [][\A s \in hist.told :
        (At(s, "top") /\ sup'[s] # sup[s]) => sup'[s].pc = "done"]_vars

\* C10: no child is spawned in a state where stop_backend has set stopping.
C10_NoSpawnAfterStop ==
    [][Len(child') > Len(child) => ~stopping]_vars

\* C11: stop_backend that finds a child in the handle first sends it the
\* graceful request, waits, and kills it only if it has not exited; when it
\* returns the handle is empty, ready is false and that child is not running.
C11_GracefulThenForced ==
    [][/\ (api.pc = "st_take" /\ api' # api /\ process # 0) =>
              /\ process' = 0
              /\ child'[process].sigs = child[process].sigs \cup {"stop_term"}
              /\ child'[process].alive = child[process].alive
       /\ (api.pc = "st_kill" /\ api' # api) =>
              /\ "stop_term" \in child[api.held].sigs
              /\ ("stop_kill" \in child'[api.held].sigs)
                     = child[api.held].alive
              /\ ~child'[api.held].alive
              /\ process' = 0
              /\ ~ready']_vars

\* C12: a signal or kill is only ever sent to the child taken out of the
\* managed handle, and an adoption (by detection or by the proxy-port
\* fallback) stores nothing in the handle: a backend that was adopted, not
\* spawned, is never signalled by the supervisor, stop_managed_backend or
\* stop_backend.
C12_ExternalNeverSignalled ==
    [][/\ \A i \in 1..Len(child) :
              child'[i].sigs # child[i].sigs => i \in {process, api.held}
       /\ \A s \in Running :
              (sup[s].pc \in {"detect", "a_ready"} /\ sup'[s] # sup[s]) =>
                  (process' = process /\ child' = child)
       /\ (api.pc \in {"sb_proxy", "sb_fport", "sb_fready"} /\ api' # api) =>
              (process' = process /\ child' = child)]_vars

\* stop_backend has run to its end while the backend in use was an adopted
\* one (nothing was ever spawned), and nothing was signalled
C12_Witness ==
    /\ Len(child) = 0 /\ process = 0
    /\ backend_port # 0 /\ hist.probed = backend_port
    /\ stopping /\ api.pc = "idle"

\* C13: whenever the managed handle holds a child and backend_port is not 0,
\* backend_port is the port that child was launched with.
C13_Ownership ==
    (process # 0 /\ backend_port # 0) => backend_port = child[process].port

\* C14: a start_backend call made after a call that bound the proxy listener
\* does not try to bind again, does not fail, and leaves the one listener in
\* place; there is never more than one listener on the stable port.
C14_IdempotentBind ==
    [][/\ listeners' <= 1
       /\ proxy_started' => listeners' = 1
       /\ (api.pc = "sb_proxy" /\ api' # api /\ proxy_started) =>
              /\ listeners' = listeners
              /\ proxy_started'
              /\ api'.pc = "idle" /\ api'.ret = "ok"]_vars

\* a second start_backend has returned Ok with the listener of the first
C14_Witness ==
    /\ hist.starts = 2 /\ api.pc = "idle" /\ api.ret = "ok"
    /\ proxy_started /\ listeners = 1

\* the ports of an occupancy whose /health identifies as the backend
Matching(occ) ==
    {p \in Ports : occ[p].kind = "json" /\ occ[p].app = "lifetrace"}

\* C15: detect_running_backend_port returns the lowest port of the range
\* whose /health identifies as the backend, passing over ports that are free
\* or answer as something else, and None (0) iff no port identifies.
C15_AdoptionOrder ==
    (hist.fn.op = "detect" /\ hist.fn.done) =>
        LET m == Matching(hist.fn.occ)
        IN /\ (hist.fn.out = 0) = (m = {})
           /\ m # {} => /\ hist.fn.out \in m
                         /\ \A p \in m : hist.fn.out <= p

\* the lowest port answers as another service, the highest as the backend,
\* and the highest is returned
C15_Witness ==
    /\ hist.fn.op = "detect" /\ hist.fn.done
    /\ hist.fn.occ[1] = [kind |-> "json", app |-> "other", mode |-> "none"]
    /\ hist.fn.out = MaxPort
    /\ \A p \in Ports : p # MaxPort => p \notin Matching(hist.fn.occ)

\* C16: is_lifetrace_backend is true iff the request got an answer, the
\* status is a success, the body parses as a health report and its app is
\* "lifetrace"; every other outcome is the same plain false.
C16_IdentityProbe ==
    (hist.fn.op = "identify" /\ hist.fn.done) =>
        /\ hist.fn.out \in BOOLEAN
        /\ hist.fn.out =
               (IF hist.fn.r.kind \in {"refused", "status", "garbage"}
                THEN FALSE
                ELSE hist.fn.r.app = "lifetrace")

\* a parsable report without an app field is answered false
C16_Witness ==
    /\ hist.fn.op = "identify" /\ hist.fn.done
    /\ hist.fn.r.kind = "json" /\ hist.fn.r.app = "none"
    /\ hist.fn.out = FALSE

\* C17: for a fixed set of bindable ports pick_backend_port fails iff no
\* port of the range is bindable; otherwise it returns a bindable port of
\* the range whatever the random draws were, the lowest one when no draw
\* hit a bindable port.
C17_PickComplete ==
    (hist.fn.op = "pick" /\ hist.fn.done) =>
        LET free == hist.fn.free
            hit  == \E i \in 1..Draws : hist.fn.draws[i] \in free
        IN /\ (hist.fn.out = 0) = (free = {})
           /\ hist.fn.out # 0 => hist.fn.out \in free \cap Ports
           /\ (free # {} /\ ~hit) => \A p \in free : hist.fn.out <= p
           /\ hist.fn.out \in PickBackendPort(free)

\* every draw fell on a taken port and the scan found the free one
C17_Witness ==
    /\ hist.fn.op = "pick" /\ hist.fn.done
    /\ hist.fn.free = {MaxPort}
    /\ \A i \in 1..Draws : hist.fn.draws[i] = 1
    /\ hist.fn.out = MaxPort

\* C18: a launched child that answers /health but is not recognisable as
\* the backend (app absent, app different, body not parsable) makes the
\* launch fail: the child is signalled, the handle emptied, and its port is
\* not published.
C18_IdentityMismatch ==
    \A s \in Running :
        sup[s].ident \in {"absent", "different", "unparsable"} =>
            /\ At(s, "fail")
            /\ process = 0
            /\ "managed_term" \in child[sup[s].cid].sigs
            /\ backend_port # sup[s].port

\* C19: a launched child that never answers /health within the startup
\* window makes the launch fail with the handle emptied; by the time the
\* failure has been handled (ready false stored, backoff slept) that child
\* is not running, even if it ignores SIGTERM.
C19_StartupTimeout ==
    [][\A s \in Running :
        /\ sup'[s].ident = "timeout" =>
               (sup'[s].pc = "fail" /\ process' = 0)
        /\ (sup[s].ident = "timeout" /\ sup'[s] # sup[s]) =>
               /\ sup'[s].pc = "top"
               /\ ~ready'
               /\ ~child'[sup[s].cid].alive]_vars

\* C20: a forwarded request whose transport fails is answered 503 with the
\* "starting" payload, never with an error of its own, and the forwarding
\* step leaves backend_port and ready as they are.
C20_TransportFailure ==
    [][(px.pc = "p_fwd" /\ px' # px) =>
          /\ px'.pc = "done"
          /\ px'.body.status # "relayed" =>
                 (px'.code = 503 /\ px'.body = [status |-> "starting"])
          /\ backend_port' = backend_port
          /\ ready' = ready]_vars

\* a forward to the published port failed and was answered "starting" while
\* the port stays published and ready stays true
C20_Witness ==
    /\ px.pc = "done" /\ px.fwd # 0
    /\ px.code = 503 /\ px.body = [status |-> "starting"]
    /\ ready /\ backend_port = px.fwd

\* C21: a supervisor leaves its loop only from the top of an iteration and
\* only with stopping read as true; every other step of a running supervisor
\* (a failed allocation, spawn, startup wait or identity check, a failed
\* probe, an observed exit) leaves it in its loop, and an iteration that found
\* stopping false at its top goes on to poll the handle.
C21_LoopNeverExits ==
    [][\A s \in Sup :
        /\ (sup[s].pc # "done" /\ sup'[s].pc = "done") =>
               (At(s, "top") /\ stopping)
        /\ (sup[s].pc \notin {"none", "done", "top"} /\ sup'[s] # sup[s]) =>
               sup'[s].pc \notin {"none", "done"}
        /\ (At(s, "top") /\ sup'[s] # sup[s] /\ ~stopping) =>
               sup'[s].pc = "poll"
        /\ (At(s, "fail") /\ sup'[s] # sup[s]) => sup'[s].pc = "top"]_vars

\* a supervisor that failed as many launches in a row as the run allows, saw
\* a child exit, and has started one more iteration
C21_Witness ==
    \E s \in Running :
        /\ hist.nfail[s] = hist.lim.fails /\ hist.stale # 0
        /\ At(s, "poll") /\ ~stopping

\* the launcher cannot create one more process: the environment of the run
\* does not let a launch succeed any more
LaunchImpossible ==
    \E s \in Running :
        At(s, "spawn") /\ ~MayFail(s) /\ Len(child) >= hist.lim.spawns

\* C22: with stopping never set, the supervisor scheduled fairly and a launch
\* able to succeed, whenever a supervisor runs and ready is false, ready is
\* true again later: after a crash, after a failed launch, after a failed
\* probe, also when the managed child stays alive and stops answering.
C22_SelfHealing ==
    (Running # {} /\ ~ready) ~> (ready \/ LaunchImpossible)

\* C22 without its last case: ready is true again later unless, from some
\* point on, the handle holds a child that stays alive.
C22_UnlessManagedAlive ==
    \/ <>[](process # 0 /\ child[process].alive)
    \/ C22_SelfHealing

\* C23: no step of the proxy handler (a request arriving, either load, the
\* answer, the forward and its outcome) changes backend_port, ready, stopping,
\* proxy_port or the process handle, and none creates, signals or ends a
\* child.
C23_ProxyFrame ==
    [][px' # px =>
          /\ backend_port' = backend_port
          /\ ready' = ready
          /\ stopping' = stopping
          /\ proxy_port' = proxy_port
          /\ process' = process
          /\ child' = child]_vars

\* a forward just failed and was answered, with the managed child still in
\* the handle, its port still published and ready still true
C23_Witness ==
    /\ px.pc = "done" /\ px.fwd # 0 /\ px.body = [status |-> "starting"]
    /\ process # 0 /\ child[process].alive
    /\ backend_port = px.fwd /\ ready /\ ~stopping

\* C24: every change of backend_port, ready or the process handle is made
\* by a step of a supervisor task: the caller of start_backend / stop_backend
\* and the proxy handler are not moving in a step that changes any of them.
C24_SingleWriter ==
    [][(backend_port' # backend_port \/ ready' # ready \/ process' # process)
          => (api' = api /\ px' = px)]_vars

\* C25: in every state, whatever has crashed, been adopted or relaunched,
\* get_backend_url returns http://127.0.0.1:<stable port of the mode>, and
\* proxy_port holds 0 or that port.
C25_StableAddress ==
    /\ proxy_port \in {0, ProxyPort}
    /\ GetBackendUrl(proxy_port) = <<"http://127.0.0.1:", ProxyPort>>

\* after a crash and a relaunch on another port the URL is still the stable
\* one, while backend_port holds the volatile port of the second child
C25_Witness ==
    /\ Len(child) = 2 /\ ~child[1].alive /\ process = 2 /\ ready
    /\ backend_port = child[2].port /\ child[2].port # child[1].port
    /\ backend_port # ProxyPort
    /\ GetBackendUrl(proxy_port) = <<"http://127.0.0.1:", ProxyPort>>

\* C26: an iteration whose pick_backend_port finds no free port spawns
\* nothing and leaves the handle empty, and goes to the same failure arm as
\* any failed launch: ready is stored false, the current backoff is slept and
\* then doubled up to 10 s, and the launch is retried in a later iteration.
C26_AllocationFailure ==
    [][\A s \in Running :
        /\ (At(s, "pick") /\ sup'[s] # sup[s] /\ sup'[s].port = 0) =>
               /\ sup'[s].pc = "fail" /\ sup'[s].cid = 0
               /\ child' = child /\ process' = process /\ process = 0
               /\ sup'[s].backoff = sup[s].backoff
        /\ (At(s, "fail") /\ sup'[s] # sup[s]) =>
               /\ ~ready'
               /\ hist'.waited[s] >= sup[s].backoff
               /\ sup'[s].backoff = Min(2 * sup[s].backoff, MaxBackoff)
               /\ sup'[s].pc = "top"
               /\ child' = child /\ process' = process
               /\ sup[s].port = 0 => (process = 0 /\ sup[s].cid = 0)]_vars

\* a second failure in a row, this one of the allocation, about to be handled
\* with the doubled backoff and no child ever spawned
C26_Witness ==
    \E s \in Running :
        /\ At(s, "fail") /\ sup[s].port = 0 /\ sup[s].cid = 0
        /\ hist.nfail[s] = 1 /\ sup[s].backoff = 2 * BackoffFloor
        /\ Len(child) = 0 /\ process = 0 /\ ~stopping

\* C27: an iteration that finds a child in the handle and finds it running
\* loads backend_port, probes that port, stores the probe's result in ready
\* and ends; no step of it changes backend_port, the handle or any child, and
\* it reaches neither detection nor the launcher, whatever the probe says.
C27_ManagedIteration ==
    [][\A s \in Running :
        /\ (At(s, "poll") /\ sup'[s] # sup[s]
                /\ process # 0 /\ child[process].alive) =>
               /\ sup'[s].managed /\ ~sup'[s].exited /\ sup'[s].pc = "load"
               /\ process' = process /\ child' = child
        /\ (sup[s].managed /\ ~sup[s].exited /\ sup'[s] # sup[s]) =>
               /\ sup[s].pc \in {"load", "m_probe"}
               /\ backend_port' = backend_port
               /\ process' = process /\ child' = child
               /\ At(s, "load") =>
                      /\ sup'[s].pc = "m_probe"
                      /\ sup'[s].bp = backend_port
                      /\ ready' = ready
               /\ At(s, "m_probe") =>
                      /\ sup'[s].pc = "top"
                      /\ ready' = (hist'.probed = sup[s].bp)]_vars

\* the probe of a running managed child has just failed: ready is false, the
\* child is still running in the handle and its port is still published
C27_Witness ==
    \E s \in Running :
        /\ At(s, "top") /\ ~stopping /\ ~ready /\ hist.probed = 0
        /\ process # 0 /\ child[process].alive
        /\ backend_port = child[process].port

\* C28: an iteration that found no child in the handle and loaded a
\* backend_port other than 0 probes that port.  Healthy: ready is stored true
\* and the iteration ends, with backend_port as it was and without detection
\* or launch.  Unhealthy: ready is stored false, then backend_port 0, and the
\* same iteration goes on to detection and, when nothing is detected, to the
\* launcher.
C28_AdoptedIteration ==
    [][\A s \in Running :
        /\ (At(s, "load") /\ sup'[s] # sup[s]
                /\ ~sup[s].managed /\ backend_port # 0) =>
               (sup'[s].pc = "x_probe" /\ sup'[s].bp = backend_port)
        /\ (At(s, "x_probe") /\ sup'[s] # sup[s]) =>
               /\ backend_port' = backend_port
               /\ process' = process /\ child' = child
               /\ IF hist'.probed = sup[s].bp
                  THEN ready' /\ sup'[s].pc = "top"
                  ELSE ~ready' /\ sup'[s].pc = "x_port"
        /\ (At(s, "x_port") /\ sup'[s] # sup[s]) =>
               /\ backend_port' = 0 /\ ready' = ready
               /\ sup'[s].pc = "detect"
        /\ (At(s, "detect") /\ sup'[s] # sup[s] /\ sup'[s].det = 0) =>
               sup'[s].pc = "pick"
        /\ sup'[s].pc \in {"x_probe", "x_port"} =>
               (~sup'[s].managed /\ sup'[s].bp # 0)]_vars

\* the probe of an adopted backend failed and the same iteration, having
\* cleared the port and detected nothing, has picked a port for a launch
C28_Witness ==
    \E s \in Running :
        /\ At(s, "spawn") /\ sup[s].bp # 0 /\ ~sup[s].managed
        /\ sup[s].det = 0 /\ backend_port = 0 /\ ~ready /\ ~stopping

\* C29: the backoff of a supervisor is always between 500 ms and 10 s: it is
\* 500 ms doubled once per launch failed since the last adoption or successful
\* launch (or since the start), capped at 10 s.  So after any success it is
\* 500 ms again, and the first failure after a success sleeps 500 ms.
C29_BackoffResetAndBounds ==
    \A s \in Sup :
        /\ sup[s].backoff >= BackoffFloor /\ sup[s].backoff <= MaxBackoff
        /\ sup[s].backoff =
               Min(BackoffFloor * Pow2(hist.nfail[s]), MaxBackoff)
        /\ hist.nfail[s] = 0 => sup[s].backoff = BackoffFloor

\* a launch failed and its child was stopped, the next launch succeeded, its
\* child later exited, and the launch after that has just failed: the failure
\* is about to sleep the floor backoff
C29_Witness ==
    \E s \in Running :
        /\ At(s, "fail") /\ hist.nfail[s] = 0
        /\ sup[s].backoff = BackoffFloor
        /\ Len(child) = 2 /\ "managed_term" \in child[1].sigs
        /\ child[2].sigs = {} /\ ~child[2].alive /\ process = 0

\* C30: a launched child whose /health report identifies as the backend but
\* declares another server_mode than the requested one, or none, is accepted:
\* the launch succeeds, the supervisor does not stop the child, and the
\* child's port is published and then ready stored true.
C30_ModeMismatchAccepted ==
    [][\A s \in Running :
        /\ sup'[s].ident \in {"mode_differs", "mode_absent"} =>
               /\ sup'[s].pc = "ok_ready"
               /\ backend_port' = sup'[s].port
               /\ "managed_term" \notin child'[sup'[s].cid].sigs
        /\ (sup[s].ident \in {"mode_differs", "mode_absent"}
                /\ sup'[s] # sup[s]) =>
               /\ ready' /\ sup'[s].pc = "top"
               /\ backend_port' = sup[s].port
               /\ process' = process /\ child' = child]_vars

\* a child that reports the build mode to a dev shell has been accepted: it
\* runs in the handle and its port is published
C30_Witness ==
    \E s \in Running :
        /\ At(s, "ok_ready") /\ sup[s].ident = "mode_differs"
        /\ process = sup[s].cid /\ child[process].alive
        /\ child[process].sigs = {}
        /\ backend_port = child[process].port /\ ~stopping

\* the entries of header list hs whose name is not in skip, in their order
Without(hs, skip) ==
    LET keep(h) == h[1] \notin skip IN SelectSeq(hs, keep)

\* C31: the request sent to the backend goes to 127.0.0.1:P with the
\* incoming method, path and query, and body, and with the incoming headers
\* except host, content-length and connection; the response returned has the
\* backend's status (404 and 500 included) and body, the backend's headers
\* except content-length, transfer-encoding, content-encoding and connection,
\* and one Content-Length, the decimal length of the body.
C31_ForwardingFidelity ==
    /\ (hist.fn.op = "forward" /\ hist.fn.done) =>
           LET req == hist.fn.req
               out == hist.fn.out
           IN /\ out.url = <<"http://127.0.0.1:", hist.fn.port, req.pq>>
              /\ out.method = req.method
              /\ out.body = req.body
              /\ out.headers =
                     Without(req.headers,
                             {"host", "content-length", "connection"})
    /\ (hist.fn.op = "relay" /\ hist.fn.done) =>
           LET resp == hist.fn.resp
               out  == hist.fn.out
               n    == Len(out.headers)
           IN /\ out.status = resp.status
              /\ out.body = resp.body
              /\ n >= 1
              /\ SubSeq(out.headers, 1, n - 1) =
                     Without(resp.headers,
                             {"content-length", "transfer-encoding",
                              "content-encoding", "connection"})
              /\ out.headers[n][1] = "content-length"
              /\ LET d == out.headers[n][2]
                 IN /\ Len(d) \in {1, 2}
                    /\ \A i \in 1..Len(d) : d[i] \in 0..9
                    /\ Len(d) = 1 => d[1] = Len(out.body)
                    /\ Len(d) = 2 =>
                           (d[1] # 0 /\ 10 * d[1] + d[2] = Len(out.body))
              /\ \A i \in 1..(n - 1) : out.headers[i][1] # "content-length"

\* a 404 with a long body, a stale content-length and a content-encoding:
\* relayed as 404 with the body, the one kept header and the new length
C31_Witness ==
    /\ hist.fn.op = "relay" /\ hist.fn.done
    /\ hist.fn.resp.status = 404 /\ Len(hist.fn.resp.body) = LongBody
    /\ hist.fn.resp.headers =
           <<<<"content-encoding", "v">>, <<"x-trace", "v">>>>
    /\ hist.fn.out.status = 404
    /\ hist.fn.out.headers =
           <<<<"x-trace", "v">>,
             <<"content-length", <<LongBody \div 10, LongBody % 10>>>>>>

\* C32: every step that signals a child either takes that child out of the
\* handle in the same step or is stop_backend's kill of the child it took; a
\* child is put in the handle once, fresh from its spawn; and no child is
\* ever signalled both by stop_managed_backend and by stop_backend.
C32_ExclusiveTake ==
    [][/\ \A i \in 1..Len(child') :
              ~ /\ "managed_term" \in child'[i].sigs
                /\ child'[i].sigs \cap {"stop_term", "stop_kill"} # {}
       /\ \A i \in 1..Len(child) :
              child'[i].sigs # child[i].sigs =>
                  \/ i = process /\ process' = 0
                  \/ i = api.held /\ api.pc = "st_kill" /\ process' = process
       /\ (process' # process /\ process' # 0) =>
              /\ child[process'].sigs = {}
              /\ \E s \in Running :
                     At(s, "store_handle") /\ sup[s].cid = process'
                         /\ sup'[s].pc = "wait"]_vars

\* stop_backend took and stopped the child of a launch under way; the launch
\* then failed and its stop_managed_backend found the handle empty
C32_Witness ==
    \E s \in Running :
        /\ At(s, "fail") /\ sup[s].cid # 0
        /\ child[sup[s].cid].sigs = {"stop_term", "stop_kill"}
        /\ process = 0 /\ api.pc = "idle"

\* C33: a /ready request answered "ready" carries a backend_port that is not
\* 0 (a port that was published while ready was true), whatever the
\* supervisor stored between the handler's two loads.
C33_ConsistentPair ==
    (px.pc = "done" /\ px.path = "/ready" /\ px.code = 200) =>
        /\ px.body.status = "ready"
        /\ px.body.backend_port # 0

\* C34: when start_backend_process spawns a child, no child spawned earlier
\* is still running: one that was taken out of the handle by
\* stop_managed_backend has ended by then.
C34_OneChildAlive ==
    [][Len(child') > Len(child) =>
          \A i \in 1..Len(child) : ~child[i].alive]_vars

\* C35: once stop_backend has returned and every supervisor has left its
\* loop, the handle is empty and no spawned child is running (leaving aside
\* a child that stop_managed_backend signalled and that has not ended yet).
C35_NoOrphan ==
    (/\ stopping /\ api.pc = "idle"
     /\ Running # {} /\ \A s \in Running : At(s, "done")) =>
        /\ process = 0
        /\ \A i \in 1..Len(child) :
               child[i].alive => "managed_term" \in child[i].sigs

\* C36: from stop_backend's store of ready = false on (and with no later
\* start_backend), ready is false.
C36_ReadyStaysOff ==
    (stopping /\ api.pc \in {"st_take", "st_kill", "idle"}) => ~ready

\* what start_backend does when the bind of the stable port fails: with no
\* compatible backend on the port it returns Err with proxy_started false and
\* no supervisor spawned; with one it stores backend_port = stable port, then
\* ready = true, leaves proxy_started false, spawns the supervisor and
\* returns Ok
C37_Step ==
    /\ (api.pc = "sb_proxy" /\ api' # api /\ listeners' = listeners) =>
           /\ ~proxy_started' /\ proxy_port' = ProxyPort
           /\ Running' = Running
           /\ backend_port' = backend_port /\ ready' = ready
           /\ IF hist'.probed = ProxyPort
              THEN api'.pc = "sb_fport"
              ELSE api'.pc = "idle" /\ api'.ret = "err"
    /\ (api.pc = "sb_fport" /\ api' # api) =>
           /\ backend_port' = ProxyPort /\ api'.pc = "sb_fready"
           /\ ~proxy_started' /\ Running' = Running
    /\ (api.pc = "sb_fready" /\ api' # api) =>
           /\ ready' /\ backend_port' = ProxyPort /\ ~proxy_started'
           /\ api'.pc = "idle" /\ api'.ret = "ok"
           /\ Running' # {} /\ Running = {}
    /\ api'.ret = "err" => Running' = {}

\* C37 (as amended): C37_Step, and a supervisor is spawned only by
\* start_backend's last step, after the bind was attempted: by then either
\* the proxy listens on the stable port, or the bind failed and the stable
\* port itself was adopted as the backend, so that the supervisor runs with
\* no proxy started.
C37_BindFailure ==
    [][/\ C37_Step
       /\ Running' # Running =>
              /\ api.pc \in {"sb_proxy", "sb_fready"} /\ api'.pc = "idle"
              /\ proxy_port' = ProxyPort
              /\ \/ proxy_started' /\ listeners' = 1
                 \/ /\ ~proxy_started' /\ listeners' = 0
                    /\ backend_port' = ProxyPort /\ ready']_vars

\* C37 (as stated): C37_Step, and in both cases the proxy is started before
\* any supervisor iteration runs.
C37_ProxyBeforeSupervisor ==
    [][/\ C37_Step
       /\ Running' # {} => (proxy_started' /\ listeners' = 1)]_vars

\* the bind failed, the stable port was adopted, start_backend returned Ok,
\* and the supervisor is probing that port in its first iteration with no
\* proxy started
C37_Witness ==
    /\ api.pc = "idle" /\ api.ret = "ok"
    /\ ~proxy_started /\ listeners = 0
    /\ backend_port = ProxyPort /\ ready
    /\ \E s \in Running : At(s, "x_probe") /\ sup[s].bp = ProxyPort

====
